---- MODULE Spec2Model ----
(***************************************************************************)
(* Rural Management Dashboard: the request orchestration of the two        *)
(* front-end variants of the repository.                                   *)
(*                                                                         *)
(*   variant = "tabbed"     src/client/src/App.jsx  (pages and tabs, chat, *)
(*                          symptom checker)                               *)
(*   variant = "statecity"  src/unnamed/part_000    (one dashboard with a  *)
(*                          language, a state and a city selector)         *)
(*                                                                         *)
(* A state is the React state of the mounted components plus the fetch     *)
(* requests that are issued and not yet settled.  A step is one user event *)
(* with the effects React runs after it, or the settling of one request    *)
(* with the promise callbacks that run on it.                              *)
(***************************************************************************)
EXTENDS Integers, Sequences, FiniteSets, TLC

\* ------------------------------------------------------------------ bounds
\* most requests of the tabbed variant that are in flight at once
MaxInFlight == 2
\* most requests of the state/city variant that are in flight at once
MaxInFlightSC == 5
\* longest chat transcript
MaxTurns == 5

\* --------------------------------------------------------------- JS values
\* Texts are sequences of characters; a fixed text is a one-element sequence.
Undefined == <<"#undefined">>
Texts == { <<>>, <<" ">>, <<" ", "a", " ">> }

RECURSIVE TrimStart(_)
TrimStart(s) == IF s # <<>> /\ Head(s) = " " THEN TrimStart(Tail(s)) ELSE s

RECURSIVE TrimEnd(_)
TrimEnd(s) ==
  IF s # <<>> /\ s[Len(s)] = " " THEN TrimEnd(SubSeq(s, 1, Len(s) - 1)) ELSE s

\* String.prototype.trim
trim(s) == TrimEnd(TrimStart(s))

\* !text.trim()
Blank(s) == trim(s) = <<>>

\* ------------------------------------------------------------ the backend
\* How a fetch can settle:
\*   ok           2xx, the body parses and has the documented shape
\*   status_json  non-2xx with a JSON body (an error object): fetch resolves,
\*                r.json() resolves, the .then / try path runs
\*   network      transport failure: fetch rejects (a response whose body is
\*                no JSON makes r.json() reject and takes the same path)
Outcomes == {"ok", "status_json", "network"}
Rejects(o) == o = "network"

\* the JSON body of an error response, such as {"detail": "x"}
ErrBody == [detail |-> "x"]
NoBody == [none |-> TRUE]

\* a price entry; change is in tenths of a percent
Price(n, p, c, u, t) == [name |-> n, price |-> p, change |-> c, unit |-> u, trend |-> t]
PriceA == Price("rice", 42, -32, "kg", "down")
PriceB == Price("wheat", 30, 15, "quintal", "up")
\* an entry with no trend field: { price: 42, change: -3.2, unit: "kg" }
PriceC == Price("dal", 42, -32, "kg", "#undefined")

TabbedLanguages == {"english", "telugu"}
SCLanguages == {"en", "te"}
BuiltinLocations == <<"visakhapatnam", "vijayawada">>

\* A translation map is the language it was served for and the keys it has;
\* the value of key k in the map for language l is <<l, k>>.
TKeys == {"nav_education", "refresh", "chatbot_welcome", "locations"}
BackendT(l) == [lang |-> l, keys |-> TKeys]
\* {} and any other object without the keys the views read
EmptyT == [lang |-> "-", keys |-> {}]

\* the location maps the backend serves: the states in key order, and the
\* cities of each state in key order (none for a state that is no key)
StateNames == {"Andhra Pradesh", "Telangana", "Kerala", "detail"}
BackendLocationsMap ==
  [states |-> <<"Andhra Pradesh", "Telangana", "Kerala">>,
   cities |-> [s \in StateNames |->
                 CASE s = "Andhra Pradesh" -> <<"Guntur", "Vijayawada">>
                   [] s = "Telangana" -> <<"Hyderabad">>
                   [] OTHER -> <<>>]]
EmptyLocations == [states |-> <<>>, cities |-> [s \in StateNames |-> <<>>]]

JsonArray(s) == [array |-> s]

\* the bodies a 2xx response of a resource can carry
OkBodies(res, params) ==
  CASE res = "translations" -> {BackendT(params.language)}
    [] res = "news"         -> {[articles |-> <<>>], [articles |-> <<"n1">>]}
    [] res = "prices"       -> {[prices |-> <<PriceA>>], [prices |-> <<PriceB>>],
                                [prices |-> <<PriceC>>]}
    [] res = "weather"      -> {[current |-> "sunny"], [current |-> "rain"]}
    [] res = "schemes"      -> {[schemes |-> <<"s1">>, categories |-> <<"all", "farm">>],
                                [schemes |-> <<>>, categories |-> <<"all", "farm">>]}
    [] res = "hospitals"    -> {[hospitals |-> <<"h1">>], [hospitals |-> <<"h2">>]}
    [] res = "pharmacies"   -> {[pharmacies |-> <<"p1">>], [pharmacies |-> <<"p2">>]}
    [] res = "bloodBanks"   -> {[blood_banks |-> <<"b1">>], [blood_banks |-> <<"b2">>]}
    [] res = "symptoms"     -> {[success |-> TRUE, response |-> <<"advice">>],
                                [success |-> FALSE, response |-> <<"not configured">>]}
    [] res = "chat"         -> {[success |-> TRUE, response |-> <<"reply">>]}
    [] res = "locations"    -> {BackendLocationsMap}
    [] res = "sc_news"      -> {JsonArray(<<>>), JsonArray(<<"n1">>)}
    [] res = "sc_prices"    -> {JsonArray(<<PriceA>>), JsonArray(<<PriceB>>)}
    [] res = "sc_translations" -> {BackendT(params.language)}

\* the body the callbacks see for an outcome
Bodies(res, params, o) ==
  IF o = "ok" THEN OkBodies(res, params)
  ELSE IF o = "status_json" THEN {ErrBody} ELSE {NoBody}

\* ------------------------------------------------------------------- state
VARIABLES
  variant,         \* which of the two applications runs
  activePage,      \* App: the page shown (tabbed)
  language,        \* App: the selected language
  translations,    \* App: the active translation map
  appLoading,      \* App: the loading gate of the tabbed variant
  newsCategory,    \* EducationNews.category
  agLocation,      \* AgricultureMarket.location
  agTab,           \* AgricultureMarket.activeTab
  schemeCategory,  \* GovernmentSchemes.category
  search,          \* GovernmentSchemes.search
  hLocation,       \* HealthMedical.location
  hTab,            \* HealthMedical.activeTab
  data,            \* per panel: the list/object state it displays
  loading,         \* per component: its loading flag
  symptoms,        \* SymptomChecker.symptoms
  result,          \* SymptomChecker.result
  messages,        \* ChatBot.messages
  input,           \* ChatBot.input
  state,           \* state/city variant: the selected state
  city,            \* state/city variant: the selected city
  locations,       \* state/city variant: the loaded locations map
  requests,        \* the fetches of mounted components that are issued and
                   \* not yet settled, in issue order
  orphans,         \* per component: the unsettled fetches of its earlier,
                   \* unmounted instances
  op               \* the last event: what was invoked and what it did

vars == <<variant, activePage, language, translations, appLoading, newsCategory,
          agLocation, agTab, schemeCategory, search, hLocation, hTab, data,
          loading, symptoms, result, messages, input, state, city, locations,
          requests, orphans, op>>

scVars == <<state, city, locations>>
chatVars == <<messages, input>>
symptomVars == <<symptoms, result>>
selectorVars == <<newsCategory, agLocation, agTab, schemeCategory, search,
                  hLocation, hTab>>
appVars == <<variant, activePage, language, translations, appLoading>>

Pages == {"education", "agriculture", "health", "chatbot"}
AgTabs == {"prices", "weather", "schemes"}
HealthTabs == {"hospitals", "pharmacies", "bloodbanks", "symptoms"}
NewsCategories == {"all", "education"}

\* the panels bound to one GET resource each
Panels == {"news", "prices", "weather", "schemes", "hospitals", "pharmacies",
           "bloodBanks"}
SCPanels == {"sc_news", "sc_prices"}
Components == Panels \cup {"symptoms", "chat"}

NullT == [lang |-> "#null", keys |-> {}]
NullResult == [null |-> TRUE]
NullWeather == [null |-> TRUE]

\* useState initial values
InitData(c) ==
  CASE c = "weather" -> NullWeather
    [] c = "schemes" -> [schemes |-> <<>>, categories |-> <<>>]
    [] c \in SCPanels -> JsonArray(<<>>)
    [] OTHER -> <<>>
InitLoading(c) == c \notin {"symptoms", "chat"}

\* t.key, and t.key || fallback
Lookup(t, k) == IF k \in t.keys THEN <<t.lang, k>> ELSE Undefined
OrElse(v, fallback) == IF v = Undefined THEN fallback ELSE v

WelcomeText == <<"Hello! How can I help you today?">>
ChatErrorText == <<"Error connecting to server">>
SymptomErrorText == <<"Error checking symptoms">>
Turn(r, c) == [role |-> r, content |-> c]
Welcome(t) == Turn("assistant", OrElse(Lookup(t, "chatbot_welcome"), WelcomeText))

\* ---------------------------------------------------------------- requests
NoParams == [language |-> "-", category |-> "-", search |-> <<>>,
             location |-> "-", state |-> "-", city |-> "-", message |-> <<>>]

NoOp == [name |-> "init", res |-> "-", live |-> FALSE, outcome |-> "-",
         body |-> NoBody, over |-> FALSE, sup |-> FALSE, unhandled |-> FALSE,
         blocked |-> FALSE, issued |-> <<>>]

\* fetch(...): the request joins the outstanding ones.  over: another request
\* of the same component for the resource was outstanding when it was issued;
\* sup: a later one was issued while it was outstanding.
Issue(rs, f) ==
  Append([i \in 1..Len(rs) |->
            IF rs[i].res = f.res THEN [rs[i] EXCEPT !.sup = TRUE] ELSE rs[i]],
         [res |-> f.res, params |-> f.params,
          over |-> \E i \in 1..Len(rs) : rs[i].res = f.res,
          sup |-> FALSE])

RECURSIVE IssueAll(_, _)
IssueAll(rs, fs) ==
  IF fs = <<>> THEN rs ELSE IssueAll(Issue(rs, Head(fs)), Tail(fs))

\* The components in cs unmount: their requests are not aborted, but the
\* state setters of an unmounted component do nothing.
Kept(rs, cs) == SelectSeq(rs, LAMBDA r : r.res \notin cs)
Orphaned(rs, os, cs) ==
  [c \in DOMAIN os |->
     IF c \in cs THEN os[c] + Cardinality({i \in 1..Len(rs) : rs[i].res = c})
                 ELSE os[c]]

Without(rs, i) == SubSeq(rs, 1, i - 1) \o SubSeq(rs, i + 1, Len(rs))

RECURSIVE Total(_, _)
Total(f, S) ==
  IF S = {} THEN 0
  ELSE LET x == CHOOSE x \in S : TRUE IN f[x] + Total(f, S \ {x})

\* the number of requests in flight
InFlight == Len(requests) + Total(orphans, DOMAIN orphans)

\* the requests of the mounted instance, and all requests, for a resource
LiveOutstanding(res) == Cardinality({i \in 1..Len(requests) : requests[i].res = res})
Outstanding(res) ==
  LiveOutstanding(res) + (IF res \in DOMAIN orphans THEN orphans[res] ELSE 0)

\* a promise chain without .catch: a rejection leaves it unhandled
HasCatch(res) ==
  res \in {"translations", "news", "symptoms", "chat", "locations",
           "sc_translations", "sc_news", "sc_prices"}

\* ---------------------------------------------------- the tabbed variant
MountedIn(c, page, at, ht) ==
  CASE c = "news"       -> page = "education"
    [] c = "prices"     -> page = "agriculture" /\ at = "prices"
    [] c = "weather"    -> page = "agriculture" /\ at = "weather"
    [] c = "schemes"    -> page = "agriculture" /\ at = "schemes"
    [] c = "hospitals"  -> page = "health" /\ ht = "hospitals"
    [] c = "pharmacies" -> page = "health" /\ ht = "pharmacies"
    [] c = "bloodBanks" -> page = "health" /\ ht = "bloodbanks"
    [] c = "symptoms"   -> page = "health" /\ ht = "symptoms"
    [] c = "chat"       -> page = "chatbot"
    [] OTHER            -> FALSE

Mounted(c) ==
  IF variant = "tabbed"
    THEN ~appLoading /\ MountedIn(c, activePage, agTab, hTab)
    ELSE c \in SCPanels

\* the request a panel's fetch sends for the given selections
PanelFetch(c, lang, ncat, aloc, scat, srch, hloc) ==
  [res |-> c,
   params |->
     CASE c = "news" -> [NoParams EXCEPT !.language = lang, !.category = ncat]
       [] c \in {"prices", "weather"} -> [NoParams EXCEPT !.location = aloc]
       [] c = "schemes" ->
            [NoParams EXCEPT !.category = scat, !.search = srch, !.language = lang]
       [] OTHER -> [NoParams EXCEPT !.location = hloc]]

CurrentFetch(c) ==
  PanelFetch(c, language, newsCategory, agLocation, schemeCategory, search,
             hLocation)

\* the selections and component state of components that are not mounted
DefaultLocation == "visakhapatnam"

TabbedInit ==
  /\ variant = "tabbed"
  /\ activePage = "education"
  /\ language = "english"
  /\ translations = NullT
  /\ appLoading = TRUE
  /\ newsCategory = "all"
  /\ agLocation = DefaultLocation /\ agTab = "prices"
  /\ schemeCategory = "all" /\ search = <<>>
  /\ hLocation = DefaultLocation /\ hTab = "hospitals"
  /\ data = [c \in Panels \cup SCPanels |-> InitData(c)]
  /\ loading = [c \in Components \cup SCPanels |-> InitLoading(c)]
  /\ symptoms = <<>> /\ result = NullResult
  /\ messages = <<>> /\ input = <<>>
  /\ state = "-" /\ city = "-" /\ locations = EmptyLocations
  /\ requests = Issue(<<>>, [res |-> "translations",
                             params |-> [NoParams EXCEPT !.language = "english"]])
  /\ orphans = [c \in Components |-> 0]
  /\ op = NoOp

\* The view changes to (page, at, ht): the components that leave it unmount
\* and lose their state, the ones that enter it mount with their initial
\* state and run their mount effect.
Gone(page, at, ht) ==
  {c \in Components : Mounted(c) /\ ~MountedIn(c, page, at, ht)}
Entering(page, at, ht) ==
  {c \in Components : ~Mounted(c) /\ MountedIn(c, page, at, ht)}

MountFetches(cs, lang, aloc, hloc) ==
  IF cs \cap Panels = {} THEN <<>>
  ELSE <<PanelFetch(CHOOSE c \in cs \cap Panels : TRUE,
                    lang, "all", aloc, "all", <<>>, hloc)>>

ViewChange(page, at, ht, name) ==
  LET gone == Gone(page, at, ht)
      new  == Entering(page, at, ht)
      aloc == IF page = "agriculture" /\ activePage = "agriculture"
                THEN agLocation ELSE DefaultLocation
      hloc == IF page = "health" /\ activePage = "health"
                THEN hLocation ELSE DefaultLocation
      fs   == MountFetches(new, language, aloc, hloc)
      kept == Kept(requests, gone)
  IN /\ InFlight + Len(fs) <= MaxInFlight
     /\ activePage' = page /\ agTab' = at /\ hTab' = ht
     /\ agLocation' = aloc /\ hLocation' = hloc
     /\ newsCategory' = IF "news" \in gone \cup new THEN "all" ELSE newsCategory
     /\ schemeCategory' = "all" /\ search' = <<>>
     /\ data' = [c \in DOMAIN data |->
                   IF c \in gone \cup new THEN InitData(c) ELSE data[c]]
     /\ loading' = [c \in DOMAIN loading |->
                      IF c \in gone \cup new THEN InitLoading(c) ELSE loading[c]]
     /\ symptoms' = <<>> /\ result' = NullResult
     /\ messages' = IF "chat" \in new THEN <<Welcome(translations)>> ELSE <<>>
     /\ input' = <<>>
     /\ requests' = IssueAll(kept, fs)
     /\ orphans' = Orphaned(requests, orphans, gone)
     /\ op' = [NoOp EXCEPT !.name = name, !.issued = fs]
     /\ UNCHANGED <<variant, language, translations, appLoading, scVars>>

Interactive == variant = "tabbed" /\ ~appLoading

\* nav button: onClick={() => setActivePage(p.id)}
SetActivePage(p) ==
  /\ Interactive
  /\ p # activePage
  /\ ViewChange(p, "prices", "hospitals", "setActivePage")

\* AgricultureMarket: onClick={() => setActiveTab(tab.id)}
SetAgTab(t) ==
  /\ Interactive /\ activePage = "agriculture"
  /\ t # agTab
  /\ ViewChange(activePage, t, hTab, "setActiveTab")

\* HealthMedical: onClick={() => setActiveTab(tab.id)}
SetHealthTab(t) ==
  /\ Interactive /\ activePage = "health"
  /\ t # hTab
  /\ ViewChange(activePage, agTab, t, "setActiveTab")

\* A handler or effect runs the fetches fs of mounted panels: each sets its
\* panel's loading flag (setLoading(true)) and issues its request.
\* The translations fetch of App sets no flag.
RunFetches(fs, name) ==
  /\ InFlight + Len(fs) <= MaxInFlight
  /\ orphans' = orphans
  /\ loading' = [c \in DOMAIN loading |->
                   IF \E i \in 1..Len(fs) : fs[i].res = c THEN TRUE ELSE loading[c]]
  /\ requests' = IssueAll(requests, fs)
  /\ op' = [NoOp EXCEPT !.name = name, !.issued = fs]

TranslationsFetch(lang) ==
  [res |-> "translations", params |-> [NoParams EXCEPT !.language = lang]]

\* the sequence of the fetches of the panels in cs that are mounted
MountedFetches(cs, lang, ncat, aloc, scat, srch, hloc) ==
  LET m == {c \in cs : Mounted(c)}
  IN IF m = {} THEN <<>>
  ELSE <<PanelFetch(CHOOSE c \in m : TRUE, lang, ncat, aloc, scat, srch, hloc)>>

\* a language change that clears the map until the new one arrives
SetLanguage_ClearsMap(l) ==
  /\ Interactive
  /\ l \in TabbedLanguages \ {language}
  /\ language' = l
  /\ translations' = EmptyT
  /\ RunFetches(MountedFetches({"news", "schemes"}, l, newsCategory, agLocation,
                               schemeCategory, search, hLocation)
                  \o <<TranslationsFetch(l)>>, "setLanguage")
  /\ UNCHANGED <<variant, activePage, appLoading, selectorVars,
                 data, symptomVars, chatVars, scVars>>

\* a translations effect that closes the loading gate again
SetLanguage_ClosesGate(l) ==
  /\ Interactive
  /\ l \in TabbedLanguages \ {language}
  /\ language' = l
  /\ appLoading' = TRUE
  /\ RunFetches(<<TranslationsFetch(l)>>, "setLanguage")
  /\ UNCHANGED <<variant, activePage, translations, selectorVars,
                 data, symptomVars, chatVars, scVars>>

\* header select: onChange={e => setLanguage(e.target.value)}; the effects
\* with language in their dependencies run, children first
SetLanguage(l) ==
  /\ Interactive
  /\ l \in TabbedLanguages \ {language}
  /\ language' = l
  /\ RunFetches(MountedFetches({"news", "schemes"}, l, newsCategory, agLocation,
                               schemeCategory, search, hLocation)
                  \o <<TranslationsFetch(l)>>, "setLanguage")
  /\ UNCHANGED <<variant, activePage, translations, appLoading, selectorVars,
                 data, symptomVars, chatVars, scVars>>

\* EducationNews select: onChange={e => setCategory(e.target.value)}
SetNewsCategory(c) ==
  /\ Interactive /\ Mounted("news")
  /\ c \in NewsCategories \ {newsCategory}
  /\ newsCategory' = c
  /\ RunFetches(<<PanelFetch("news", language, c, agLocation, schemeCategory,
                             search, hLocation)>>, "setCategory")
  /\ UNCHANGED <<appVars, agLocation, agTab, schemeCategory, search, hLocation,
                 hTab, data, symptomVars, chatVars, scVars>>

\* a refresh that does nothing while the panel is loading
RefreshNews_SkipsWhileLoading ==
  /\ Interactive /\ Mounted("news")
  /\ ~loading["news"]
  /\ RunFetches(<<CurrentFetch("news")>>, "refresh")
  /\ UNCHANGED <<appVars, selectorVars, data, symptomVars, chatVars, scVars>>

\* EducationNews refresh button: onClick={fetchNews}
RefreshNews ==
  /\ Interactive /\ Mounted("news")
  /\ RunFetches(<<CurrentFetch("news")>>, "refresh")
  /\ UNCHANGED <<appVars, selectorVars, data, symptomVars, chatVars, scVars>>

\* the options of the AgricultureMarket location select
BackendLocations == <<"vijayawada", "visakhapatnam">>
LocationOptions(t) ==
  IF "locations" \in t.keys THEN BackendLocations ELSE BuiltinLocations

Range(q) == {q[i] : i \in 1..Len(q)}

\* AgricultureMarket select: onChange={e => setLocation(e.target.value)}
SetAgLocation(l) ==
  /\ Interactive /\ activePage = "agriculture"
  /\ l \in Range(LocationOptions(translations)) \ {agLocation}
  /\ agLocation' = l
  /\ RunFetches(MountedFetches({"prices", "weather"}, language, newsCategory, l,
                               schemeCategory, search, hLocation), "setLocation")
  /\ UNCHANGED <<appVars, newsCategory, agTab, schemeCategory, search, hLocation,
                 hTab, data, symptomVars, chatVars, scVars>>

\* GovernmentSchemes select: onChange={e => setCategory(e.target.value)}
SetSchemeCategory(c) ==
  /\ Interactive /\ Mounted("schemes")
  /\ c \in Range(data["schemes"].categories) \ {schemeCategory}
  /\ schemeCategory' = c
  /\ RunFetches(<<PanelFetch("schemes", language, newsCategory, agLocation, c,
                             search, hLocation)>>, "setCategory")
  /\ UNCHANGED <<appVars, newsCategory, agLocation, agTab, search, hLocation,
                 hTab, data, symptomVars, chatVars, scVars>>

SearchTexts == { <<>>, <<"a">> }

\* GovernmentSchemes input: onChange={e => setSearch(e.target.value)}
SetSearch(x) ==
  /\ Interactive /\ Mounted("schemes")
  /\ x \in SearchTexts \ {search}
  /\ search' = x
  /\ RunFetches(<<PanelFetch("schemes", language, newsCategory, agLocation,
                             schemeCategory, x, hLocation)>>, "setSearch")
  /\ UNCHANGED <<appVars, newsCategory, agLocation, agTab, schemeCategory,
                 hLocation, hTab, data, symptomVars, chatVars, scVars>>

\* HealthMedical select: onChange={e => setLocation(e.target.value)}
SetHealthLocation(l) ==
  /\ Interactive /\ activePage = "health"
  /\ l \in Range(BuiltinLocations) \ {hLocation}
  /\ hLocation' = l
  /\ RunFetches(MountedFetches({"hospitals", "pharmacies", "bloodBanks"},
                               language, newsCategory, agLocation,
                               schemeCategory, search, l), "setLocation")
  /\ UNCHANGED <<appVars, newsCategory, agLocation, agTab, schemeCategory,
                 search, hTab, data, symptomVars, chatVars, scVars>>

\* SymptomChecker textarea: onChange={e => setSymptoms(e.target.value)}
SetSymptoms(x) ==
  /\ Interactive /\ Mounted("symptoms")
  /\ x \in Texts \ {symptoms}
  /\ symptoms' = x
  /\ op' = [NoOp EXCEPT !.name = "setSymptoms"]
  /\ UNCHANGED <<appVars, selectorVars, data, loading, result, chatVars, scVars,
                 requests, orphans>>

\* a button that stays enabled while a check is pending
CheckDisabled_IgnoresPending == Blank(symptoms)

\* the submit button: disabled={loading || !symptoms.trim()}
CheckDisabled == loading["symptoms"] \/ Blank(symptoms)

\* checkSymptoms: if (!symptoms.trim()) return
CheckGuard == ~Blank(symptoms)

\* SymptomChecker.checkSymptoms, reached by a click on the enabled button
CheckSymptoms ==
  /\ Interactive /\ Mounted("symptoms")
  /\ ~CheckDisabled
  /\ IF CheckGuard
       THEN /\ InFlight < MaxInFlight
            /\ loading' = [loading EXCEPT !["symptoms"] = TRUE]
            /\ LET f == [res |-> "symptoms",
                         params |-> [NoParams EXCEPT !.message = symptoms,
                                                     !.language = language]]
               IN /\ requests' = Issue(requests, f)
                  /\ op' = [NoOp EXCEPT !.name = "checkSymptoms", !.issued = <<f>>]
       ELSE /\ op' = [NoOp EXCEPT !.name = "checkSymptoms", !.blocked = TRUE]
            /\ UNCHANGED <<loading, requests>>
  /\ UNCHANGED <<appVars, selectorVars, data, symptomVars, chatVars, scVars,
                 orphans>>

\* ChatBot input: onChange={e => setInput(e.target.value)}; a suggestion
\* button and the speech result set the input the same way
SetInput(x) ==
  /\ Interactive /\ Mounted("chat")
  /\ x \in Texts \ {input}
  /\ input' = x
  /\ op' = [NoOp EXCEPT !.name = "setInput"]
  /\ UNCHANGED <<appVars, selectorVars, data, loading, symptomVars, messages,
                 scVars, requests, orphans>>

\* a guard that forgets the pending flag
SendGuard_IgnoresPending == ~Blank(input)

\* sendMessage: if (!input.trim() || loading) return
SendGuard == ~(Blank(input) \/ loading["chat"])

\* ChatBot.sendMessage, reached by Enter in the input at any time or by a
\* click on the send button
SendMessage ==
  /\ Interactive /\ Mounted("chat")
  /\ IF SendGuard
       THEN LET userMsg == trim(input)
                f == [res |-> "chat",
                      params |-> [NoParams EXCEPT !.message = userMsg,
                                                  !.language = language]]
            IN /\ InFlight < MaxInFlight
               /\ Len(messages) + 2 <= MaxTurns
               /\ input' = <<>>
               /\ messages' = Append(messages, Turn("user", userMsg))
               /\ loading' = [loading EXCEPT !["chat"] = TRUE]
               /\ requests' = Issue(requests, f)
               /\ op' = [NoOp EXCEPT !.name = "sendMessage", !.issued = <<f>>]
       ELSE /\ op' = [NoOp EXCEPT !.name = "sendMessage", !.blocked = TRUE]
            /\ UNCHANGED <<input, messages, loading, requests>>
  /\ UNCHANGED <<appVars, selectorVars, data, symptomVars, scVars, orphans>>

\* ------------------------------------------------ settling (tabbed variant)
SettleOp(r, o, b) ==
  [NoOp EXCEPT !.name = "settle", !.res = r.res, !.live = TRUE,
               !.outcome = o, !.body = b, !.over = r.over, !.sup = r.sup,
               !.unhandled = Rejects(o) /\ ~HasCatch(r.res)]

\* setTranslations of a parsed body; an error object has none of the keys
AsTranslations(b) == IF b = ErrBody THEN EmptyT ELSE b

\* a failure handler that keeps the map it has
SettleTranslations_KeepsMap(i, o, b) ==
  /\ variant = "tabbed"
  /\ i \in 1..Len(requests) /\ requests[i].res = "translations"
  /\ b \in Bodies("translations", requests[i].params, o)
  /\ translations' = IF Rejects(o) THEN translations ELSE AsTranslations(b)
  /\ appLoading' = FALSE
  /\ LET fs == IF appLoading
                 THEN <<PanelFetch("news", language, "all", agLocation,
                                   schemeCategory, search, hLocation)>>
                 ELSE <<>>
     IN /\ requests' = IssueAll(Without(requests, i), fs)
        /\ op' = [SettleOp(requests[i], o, b) EXCEPT !.issued = fs]
  /\ UNCHANGED <<variant, activePage, language, selectorVars, data, loading,
                 symptomVars, chatVars, scVars, orphans>>

\* App effect: .then(r => r.json()).then(setTranslations)
\*   .catch(() => setTranslations({})).finally(() => setLoading(false));
\* when the gate opens, the page mounts and EducationNews fetches
SettleTranslations(i, o, b) ==
  /\ variant = "tabbed"
  /\ i \in 1..Len(requests) /\ requests[i].res = "translations"
  /\ b \in Bodies("translations", requests[i].params, o)
  /\ translations' = IF Rejects(o) THEN EmptyT ELSE AsTranslations(b)
  /\ appLoading' = FALSE
  /\ LET fs == IF appLoading
                 THEN <<PanelFetch("news", language, "all", agLocation,
                                   schemeCategory, search, hLocation)>>
                 ELSE <<>>
     IN /\ requests' = IssueAll(Without(requests, i), fs)
        /\ op' = [SettleOp(requests[i], o, b) EXCEPT !.issued = fs]
  /\ UNCHANGED <<variant, activePage, language, selectorVars, data, loading,
                 symptomVars, chatVars, scVars, orphans>>

\* what the .then callback of a panel stores for a parsed body d
Extract(c, d) ==
  CASE c = "news" -> IF "articles" \in DOMAIN d THEN d.articles ELSE <<>>
    [] c = "prices" -> IF "prices" \in DOMAIN d THEN d.prices ELSE <<>>
    [] c = "weather" -> d
    [] c = "schemes" ->
         [schemes |-> IF "schemes" \in DOMAIN d THEN d.schemes ELSE <<>>,
          categories |-> IF "categories" \in DOMAIN d THEN d.categories ELSE <<>>]
    [] c = "hospitals" -> IF "hospitals" \in DOMAIN d THEN d.hospitals ELSE <<>>
    [] c = "pharmacies" -> IF "pharmacies" \in DOMAIN d THEN d.pharmacies ELSE <<>>
    [] c = "bloodBanks" -> IF "blood_banks" \in DOMAIN d THEN d.blood_banks ELSE <<>>

\* every panel falls back to its initial data on a rejection
AfterReject_Reset(c, old) == InitData(c)

\* what a panel displays after a rejection: EducationNews has
\* .catch(() => setNews([])), the other panels have no .catch
AfterReject(c, old) == IF c = "news" THEN <<>> ELSE old

\* a binding that drops the response of a superseded request
SettlePanel_LatestOnly(i, o, b) ==
  /\ variant = "tabbed"
  /\ i \in 1..Len(requests)
  /\ requests[i].res \in Panels
  /\ b \in Bodies(requests[i].res, requests[i].params, o)
  /\ LET c == requests[i].res
     IN /\ data' = [data EXCEPT ![c] = IF Rejects(o) \/ requests[i].sup
                                         THEN data[c] ELSE Extract(c, b)]
        /\ loading' = [loading EXCEPT ![c] = FALSE]
  /\ requests' = Without(requests, i)
  /\ op' = SettleOp(requests[i], o, b)
  /\ UNCHANGED <<appVars, selectorVars, symptomVars, chatVars, scVars, orphans>>

\* the flag is cleared in the .then callback instead of .finally
SettlePanel_ClearsOnSuccess(i, o, b) ==
  /\ variant = "tabbed"
  /\ i \in 1..Len(requests)
  /\ requests[i].res \in Panels
  /\ b \in Bodies(requests[i].res, requests[i].params, o)
  /\ LET c == requests[i].res
     IN /\ data' = [data EXCEPT ![c] = IF Rejects(o) THEN AfterReject(c, data[c])
                                                     ELSE Extract(c, b)]
        /\ loading' = [loading EXCEPT ![c] = IF Rejects(o) THEN @ ELSE FALSE]
  /\ requests' = Without(requests, i)
  /\ op' = SettleOp(requests[i], o, b)
  /\ UNCHANGED <<appVars, selectorVars, symptomVars, chatVars, scVars, orphans>>

\* a panel's chain settles: .then(d => set...(...)) or the rejection path,
\* then .finally(() => setLoading(false))
SettlePanel(i, o, b) ==
  /\ variant = "tabbed"
  /\ i \in 1..Len(requests)
  /\ requests[i].res \in Panels
  /\ b \in Bodies(requests[i].res, requests[i].params, o)
  /\ LET c == requests[i].res
     IN /\ data' = [data EXCEPT ![c] = IF Rejects(o) THEN AfterReject(c, data[c])
                                                     ELSE Extract(c, b)]
        /\ loading' = [loading EXCEPT ![c] = FALSE]
  /\ requests' = Without(requests, i)
  /\ op' = SettleOp(requests[i], o, b)
  /\ UNCHANGED <<appVars, selectorVars, symptomVars, chatVars, scVars, orphans>>

SymptomError == [success |-> FALSE, response |-> SymptomErrorText]

\* checkSymptoms after the await: setResult(data), or in the catch
\* setResult({ success: false, response: 'Error checking symptoms' }),
\* finally setLoading(false)
SettleSymptoms(i, o, b) ==
  /\ variant = "tabbed"
  /\ i \in 1..Len(requests)
  /\ requests[i].res = "symptoms"
  /\ b \in Bodies("symptoms", requests[i].params, o)
  /\ result' = IF Rejects(o) THEN SymptomError ELSE b
  /\ loading' = [loading EXCEPT !["symptoms"] = FALSE]
  /\ requests' = Without(requests, i)
  /\ op' = SettleOp(requests[i], o, b)
  /\ UNCHANGED <<appVars, selectorVars, data, symptoms, chatVars, scVars,
                 orphans>>

\* data.response
ResponseOf(d) == IF "response" \in DOMAIN d THEN d.response ELSE Undefined

\* a failure leaves the pending flag set
SettleChat_StaysPending(i, o, b) ==
  /\ variant = "tabbed"
  /\ i \in 1..Len(requests)
  /\ requests[i].res = "chat"
  /\ b \in Bodies("chat", requests[i].params, o)
  /\ messages' = Append(messages, Turn("assistant", IF Rejects(o) THEN ChatErrorText
                                                                 ELSE ResponseOf(b)))
  /\ loading' = [loading EXCEPT !["chat"] = Rejects(o)]
  /\ requests' = Without(requests, i)
  /\ op' = SettleOp(requests[i], o, b)
  /\ UNCHANGED <<appVars, selectorVars, data, symptomVars, input, scVars,
                 orphans>>

\* a failure takes the user's turn back
SettleChat_Rollback(i, o, b) ==
  /\ variant = "tabbed"
  /\ i \in 1..Len(requests)
  /\ requests[i].res = "chat"
  /\ b \in Bodies("chat", requests[i].params, o)
  /\ messages' = IF Rejects(o)
                   THEN SubSeq(messages, 1, Len(messages) - 1)
                   ELSE Append(messages, Turn("assistant", ResponseOf(b)))
  /\ loading' = [loading EXCEPT !["chat"] = FALSE]
  /\ requests' = Without(requests, i)
  /\ op' = SettleOp(requests[i], o, b)
  /\ UNCHANGED <<appVars, selectorVars, data, symptomVars, input, scVars,
                 orphans>>

\* the reply overwrites the last turn
SettleChat_Overwrite(i, o, b) ==
  /\ variant = "tabbed"
  /\ i \in 1..Len(requests)
  /\ requests[i].res = "chat"
  /\ b \in Bodies("chat", requests[i].params, o)
  /\ messages' = [messages EXCEPT ![Len(messages)] =
                    Turn("assistant", IF Rejects(o) THEN ChatErrorText
                                                    ELSE ResponseOf(b))]
  /\ loading' = [loading EXCEPT !["chat"] = FALSE]
  /\ requests' = Without(requests, i)
  /\ op' = SettleOp(requests[i], o, b)
  /\ UNCHANGED <<appVars, selectorVars, data, symptomVars, input, scVars,
                 orphans>>

\* a failed send is dropped silently: the catch appends no turn
SettleChat_SilentFailure(i, o, b) ==
  /\ variant = "tabbed"
  /\ i \in 1..Len(requests)
  /\ requests[i].res = "chat"
  /\ b \in Bodies("chat", requests[i].params, o)
  /\ messages' = IF Rejects(o) THEN messages
                  ELSE Append(messages, Turn("assistant", ResponseOf(b)))
  /\ loading' = [loading EXCEPT !["chat"] = FALSE]
  /\ requests' = Without(requests, i)
  /\ op' = SettleOp(requests[i], o, b)
  /\ UNCHANGED <<appVars, selectorVars, data, symptomVars, input, scVars,
                 orphans>>

\* sendMessage after the await: the assistant turn with data.response, or in
\* the catch the turn 'Error connecting to server'; then setLoading(false)
SettleChat(i, o, b) ==
  /\ variant = "tabbed"
  /\ i \in 1..Len(requests)
  /\ requests[i].res = "chat"
  /\ b \in Bodies("chat", requests[i].params, o)
  /\ messages' = Append(messages,
                        Turn("assistant", IF Rejects(o) THEN ChatErrorText
                                                        ELSE ResponseOf(b)))
  /\ loading' = [loading EXCEPT !["chat"] = FALSE]
  /\ requests' = Without(requests, i)
  /\ op' = SettleOp(requests[i], o, b)
  /\ UNCHANGED <<appVars, selectorVars, data, symptomVars, input, scVars,
                 orphans>>

\* the request of a component that has unmounted settles: its state setters
\* do nothing; a chain without .catch still rejects unhandled
SettleOrphan(c, o) ==
  /\ variant = "tabbed"
  /\ orphans[c] > 0
  /\ orphans' = [orphans EXCEPT ![c] = @ - 1]
  /\ op' = [NoOp EXCEPT !.name = "settle", !.res = c, !.outcome = o,
                        !.unhandled = Rejects(o) /\ ~HasCatch(c)]
  /\ UNCHANGED <<appVars, selectorVars, data, loading, symptomVars, chatVars,
                 scVars, requests>>

TabbedNext ==
  \/ \E p \in Pages : SetActivePage(p)
  \/ \E t \in AgTabs : SetAgTab(t)
  \/ \E t \in HealthTabs : SetHealthTab(t)
  \/ \E l \in TabbedLanguages : SetLanguage(l)
  \/ \E c \in NewsCategories : SetNewsCategory(c)
  \/ RefreshNews
  \/ \E l \in Range(BuiltinLocations) : SetAgLocation(l)
  \/ \E c \in {"all", "farm"} : SetSchemeCategory(c)
  \/ \E x \in SearchTexts : SetSearch(x)
  \/ \E l \in Range(BuiltinLocations) : SetHealthLocation(l)
  \/ \E x \in Texts : SetSymptoms(x)
  \/ CheckSymptoms
  \/ \E x \in Texts : SetInput(x)
  \/ SendMessage
  \/ \E i \in 1..MaxInFlight, o \in Outcomes :
       \/ \E b \in {BackendT(l) : l \in TabbedLanguages} \cup {ErrBody, NoBody} :
            SettleTranslations(i, o, b)
       \/ \E c \in Panels : \E b \in Bodies(c, NoParams, o) : SettlePanel(i, o, b)
       \/ \E b \in Bodies("symptoms", NoParams, o) : SettleSymptoms(i, o, b)
       \/ \E b \in Bodies("chat", NoParams, o) : SettleChat(i, o, b)
  \/ \E c \in Components, o \in Outcomes : SettleOrphan(c, o)

Init == TabbedInit
Next == TabbedNext
Spec == Init /\ [][Next]_vars

\* Sessions.  The pages share only the language, the translation map and the
\* unsettled requests, so the state space is explored one page at a time: a
\* session on the education page (the page the application opens on), and
\* sessions that leave it for one other page and come back.
SettleAny ==
  \E i \in 1..MaxInFlight, o \in Outcomes :
    \/ \E b \in {BackendT(l) : l \in TabbedLanguages} \cup {ErrBody, NoBody} :
         SettleTranslations(i, o, b)
    \/ \E c \in Panels : \E b \in Bodies(c, NoParams, o) : SettlePanel(i, o, b)

ChatNext ==
  \/ \E p \in {"education", "chatbot"} : SetActivePage(p)
  \/ \E l \in TabbedLanguages : SetLanguage(l)
  \/ \E x \in Texts : SetInput(x)
  \/ SendMessage
  \/ SettleAny
  \/ \E i \in 1..MaxInFlight, o \in Outcomes :
       \E b \in Bodies("chat", NoParams, o) : SettleChat(i, o, b)
  \/ \E c \in Components, o \in Outcomes : SettleOrphan(c, o)

AgriNext ==
  \/ \E p \in {"education", "agriculture"} : SetActivePage(p)
  \/ \E c \in NewsCategories : SetNewsCategory(c)
  \/ RefreshNews
  \/ \E t \in AgTabs : SetAgTab(t)
  \/ \E l \in Range(BuiltinLocations) : SetAgLocation(l)
  \/ \E c \in {"all", "farm"} : SetSchemeCategory(c)
  \/ \E x \in SearchTexts : SetSearch(x)
  \/ SettleAny
  \/ \E c \in Components, o \in Outcomes : SettleOrphan(c, o)

HealthNext ==
  \/ \E p \in {"education", "health"} : SetActivePage(p)
  \/ \E t \in HealthTabs : SetHealthTab(t)
  \/ \E l \in Range(BuiltinLocations) : SetHealthLocation(l)
  \/ \E x \in Texts : SetSymptoms(x)
  \/ CheckSymptoms
  \/ SettleAny
  \/ \E i \in 1..MaxInFlight, o \in Outcomes :
       \E b \in Bodies("symptoms", NoParams, o) : SettleSymptoms(i, o, b)
  \/ \E c \in Components, o \in Outcomes : SettleOrphan(c, o)

NewsNext ==
  \/ \E l \in TabbedLanguages : SetLanguage(l)
  \/ \E c \in NewsCategories : SetNewsCategory(c)
  \/ RefreshNews
  \/ SettleAny

\* a session of language changes on the education and chat pages in which
\* the backend answers every request with a 2xx response
LangNext ==
  \/ \E p \in {"education", "chatbot"} : SetActivePage(p)
  \/ \E l \in TabbedLanguages : SetLanguage(l)
  \/ \E i \in 1..MaxInFlight, l \in TabbedLanguages :
       SettleTranslations(i, "ok", BackendT(l))
  \/ \E i \in 1..MaxInFlight :
       \E b \in OkBodies("news", NoParams) : SettlePanel(i, "ok", b)
  \/ \E c \in Components : SettleOrphan(c, "ok")

SpecNews == Init /\ [][NewsNext]_vars
SpecLang == Init /\ [][LangNext]_vars
SpecChat == Init /\ [][ChatNext]_vars
SpecAgri == Init /\ [][AgriNext]_vars
SpecHealth == Init /\ [][HealthNext]_vars

\* ------------------------------------------------ the state/city variant
SCFetchLocations == [res |-> "locations", params |-> [NoParams EXCEPT !.city = city]]
SCFetchTranslations(lang) ==
  [res |-> "sc_translations", params |-> [NoParams EXCEPT !.language = lang]]
\* fetchNews reads language from the render that created it
SCFetchNews(lang) ==
  [res |-> "sc_news", params |-> [NoParams EXCEPT !.language = lang]]
SCFetchPrices(lang, st, ct) ==
  [res |-> "sc_prices",
   params |-> [NoParams EXCEPT !.language = lang, !.state = st, !.city = ct]]

\* the three mount effects, in the order they are declared
SCMountFetches(lang, st, ct) ==
  << [res |-> "locations", params |-> [NoParams EXCEPT !.city = ct]],
     SCFetchTranslations(lang),
     SCFetchTranslations(lang), SCFetchNews(lang),
     SCFetchPrices(lang, st, ct) >>

SCInit ==
  /\ variant = "statecity"
  /\ activePage = "education" /\ appLoading = FALSE
  /\ language = "en"
  /\ state = "Andhra Pradesh"
  /\ city = "Vijayawada"
  /\ locations = EmptyLocations
  /\ translations = EmptyT
  /\ newsCategory = "all"
  /\ agLocation = DefaultLocation /\ agTab = "prices"
  /\ schemeCategory = "all" /\ search = <<>>
  /\ hLocation = DefaultLocation /\ hTab = "hospitals"
  /\ data = [c \in Panels \cup SCPanels |-> InitData(c)]
  /\ loading = [c \in Components \cup SCPanels |-> InitLoading(c)]
  /\ symptoms = <<>> /\ result = NullResult
  /\ messages = <<>> /\ input = <<>>
  /\ requests = IssueAll(<<>>, SCMountFetches("en", "Andhra Pradesh", "Vijayawada"))
  /\ orphans = [c \in Components |-> 0]
  /\ op = NoOp

tabbedVars == <<activePage, appLoading, selectorVars, symptomVars, chatVars,
                orphans>>

\* fetchNews and fetchPrices set their loading flags before the request
SCRun(fs, name) ==
  /\ Len(requests) + Len(fs) <= MaxInFlightSC
  /\ loading' = [c \in DOMAIN loading |->
                   IF \E i \in 1..Len(fs) : fs[i].res = c THEN TRUE ELSE loading[c]]
  /\ requests' = IssueAll(requests, fs)
  /\ op' = [NoOp EXCEPT !.name = name, !.issued = fs]

\* LanguageSelector onChange: setLanguage(v); fetchTranslations(v); fetchNews();
\* then the effects on [language] and on [language, state, city]
SCSetLanguage(l) ==
  /\ variant = "statecity"
  /\ l \in SCLanguages \ {language}
  /\ language' = l
  /\ SCRun(<<SCFetchTranslations(l), SCFetchNews(language),
             SCFetchTranslations(l), SCFetchNews(l),
             SCFetchPrices(l, state, city)>>, "setLanguage")
  /\ UNCHANGED <<variant, translations, data, scVars, tabbedVars>>

\* Object.keys(locations[s] || {})
CitiesOf(locs, s) == IF s \in Range(locs.states) THEN locs.cities[s] ELSE <<>>

\* a handler that sets the state and leaves the city alone
handleStateChange_KeepsCity(newState) ==
  /\ variant = "statecity"
  /\ newState \in Range(locations.states) \ {state}
  /\ state' = newState
  /\ city' = city
  /\ SCRun(<<SCFetchPrices(language, newState, city)>>, "handleStateChange")
  /\ UNCHANGED <<variant, language, translations, data, locations, tabbedVars>>

\* handleStateChange, then the effect on [language, state, city]
handleStateChange(newState) ==
  /\ variant = "statecity"
  /\ newState \in Range(locations.states) \ {state}
  /\ state' = newState
  /\ LET cities == CitiesOf(locations, newState)
     IN /\ city' = IF Len(cities) > 0 /\ city # cities[1] THEN cities[1] ELSE city
        /\ SCRun(<<SCFetchPrices(language, newState, city')>>, "handleStateChange")
  /\ UNCHANGED <<variant, language, translations, data, locations, tabbedVars>>

\* the city select: disabled={!state || !locations[state]}
CityDisabled == state \notin Range(locations.states)

\* handleCityChange, then the effect on [language, state, city]
handleCityChange(c) ==
  /\ variant = "statecity"
  /\ ~CityDisabled
  /\ c \in Range(CitiesOf(locations, state)) \ {city}
  /\ city' = c
  /\ SCRun(<<SCFetchPrices(language, state, c)>>, "handleCityChange")
  /\ UNCHANGED <<variant, language, translations, data, state, locations,
                 tabbedVars>>

\* handleRefresh
handleRefresh ==
  /\ variant = "statecity"
  /\ SCRun(<<SCFetchLocations, SCFetchTranslations(language),
             SCFetchNews(language), SCFetchPrices(language, state, city)>>,
           "handleRefresh")
  /\ UNCHANGED <<variant, language, translations, data, scVars, tabbedVars>>

\* setLocations of a parsed body; the keys of an error object are its states
\* and the keys of its string value are the indices of its characters
AsLocations(d) ==
  IF d = ErrBody
    THEN [states |-> <<"detail">>,
          cities |-> [s \in StateNames |-> IF s = "detail" THEN <<"0">> ELSE <<>>]]
    ELSE d

\* fetchLocations after the await
SCSettleLocations(i, o, b) ==
  /\ variant = "statecity"
  /\ i \in 1..Len(requests) /\ requests[i].res = "locations"
  /\ b \in Bodies("locations", requests[i].params, o)
  /\ IF Rejects(o)
       THEN UNCHANGED <<locations, city>>
       ELSE LET locs == AsLocations(b)
            IN /\ locations' = locs
               /\ city' = IF /\ "Andhra Pradesh" \in Range(locs.states)
                             /\ requests[i].params.city = ""
                               THEN locs.cities["Andhra Pradesh"][1]
                               ELSE city
  /\ requests' = Without(requests, i)
  /\ op' = SettleOp(requests[i], o, b)
  /\ UNCHANGED <<variant, language, translations, data, loading, state,
                 tabbedVars>>

\* fetchTranslations after the await: the catch only logs
SCSettleTranslations(i, o, b) ==
  /\ variant = "statecity"
  /\ i \in 1..Len(requests) /\ requests[i].res = "sc_translations"
  /\ b \in Bodies("sc_translations", requests[i].params, o)
  /\ translations' = IF Rejects(o) THEN translations ELSE AsTranslations(b)
  /\ requests' = Without(requests, i)
  /\ op' = SettleOp(requests[i], o, b)
  /\ UNCHANGED <<variant, language, data, loading, scVars, tabbedVars>>

NewsPlaceholder == JsonArray(<<"News loading...">>)

\* fetchNews after the await: setNews(data), in the catch the placeholder
\* article, finally setLoadingNews(false)
SCSettleNews(i, o, b) ==
  /\ variant = "statecity"
  /\ i \in 1..Len(requests) /\ requests[i].res = "sc_news"
  /\ b \in Bodies("sc_news", requests[i].params, o)
  /\ data' = [data EXCEPT !["sc_news"] = IF Rejects(o) THEN NewsPlaceholder ELSE b]
  /\ loading' = [loading EXCEPT !["sc_news"] = FALSE]
  /\ requests' = Without(requests, i)
  /\ op' = SettleOp(requests[i], o, b)
  /\ UNCHANGED <<variant, language, translations, scVars, tabbedVars>>

\* fetchPrices after the await: setPrices(data), the catch only logs,
\* finally setLoadingPrices(false)
SCSettlePrices(i, o, b) ==
  /\ variant = "statecity"
  /\ i \in 1..Len(requests) /\ requests[i].res = "sc_prices"
  /\ b \in Bodies("sc_prices", requests[i].params, o)
  /\ data' = [data EXCEPT !["sc_prices"] = IF Rejects(o) THEN @ ELSE b]
  /\ loading' = [loading EXCEPT !["sc_prices"] = FALSE]
  /\ requests' = Without(requests, i)
  /\ op' = SettleOp(requests[i], o, b)
  /\ UNCHANGED <<variant, language, translations, scVars, tabbedVars>>

SCSettleAny ==
  \E i \in 1..MaxInFlightSC, o \in Outcomes :
    \/ \E b \in {BackendLocationsMap, ErrBody, NoBody} : SCSettleLocations(i, o, b)
    \/ \E b \in {BackendT(l) : l \in SCLanguages} \cup {ErrBody, NoBody} :
         SCSettleTranslations(i, o, b)
    \/ \E b \in Bodies("sc_news", NoParams, o) : SCSettleNews(i, o, b)
    \/ \E b \in Bodies("sc_prices", NoParams, o) : SCSettlePrices(i, o, b)

\* a session that changes the language and refreshes
SCNext ==
  \/ \E l \in SCLanguages : SCSetLanguage(l)
  \/ handleRefresh
  \/ SCSettleAny

\* the translations, news and prices requests answered with a 2xx response
SCSettleServed ==
  \E i \in 1..MaxInFlightSC :
    \/ \E l \in SCLanguages : SCSettleTranslations(i, "ok", BackendT(l))
    \/ SCSettleNews(i, "ok", JsonArray(<<"n1">>))
    \/ SCSettlePrices(i, "ok", JsonArray(<<PriceA>>))

\* a session that changes the state and the city: the locations request
\* settles in every way, the other requests are served
SCLocNext ==
  \/ \E st \in StateNames : handleStateChange(st)
  \/ \E c \in {"Vijayawada", "Guntur", "Hyderabad", "0"} : handleCityChange(c)
  \/ \E i \in 1..MaxInFlightSC, o \in Outcomes :
       \E b \in {BackendLocationsMap, ErrBody, NoBody} : SCSettleLocations(i, o, b)
  \/ SCSettleServed

\* either application, every data panel of it, every way a request of a panel
\* can settle (the translations, and the locations of the state/city variant,
\* are served)
PanelsInit == TabbedInit \/ SCInit
PanelsNext ==
  \/ \E p \in {"education", "agriculture", "health"} : SetActivePage(p)
  \/ \E t \in AgTabs : SetAgTab(t)
  \/ \E t \in HealthTabs : SetHealthTab(t)
  \/ \E l \in Range(BuiltinLocations) : SetAgLocation(l)
  \/ RefreshNews
  \/ \E x \in {<<>>, <<" ", "a", " ">>} : SetSymptoms(x)
  \/ CheckSymptoms
  \/ SettleTranslations(1, "ok", BackendT("english"))
  \/ \E i \in 1..MaxInFlight, o \in Outcomes :
       \/ \E c \in Panels : \E b \in Bodies(c, NoParams, o) : SettlePanel(i, o, b)
       \/ \E b \in Bodies("symptoms", NoParams, o) : SettleSymptoms(i, o, b)
  \/ \E c \in Components, o \in Outcomes : SettleOrphan(c, o)
  \/ handleRefresh
  \/ \E i \in 1..MaxInFlightSC, o \in Outcomes :
       \/ \E b \in Bodies("sc_news", NoParams, o) : SCSettleNews(i, o, b)
       \/ \E b \in Bodies("sc_prices", NoParams, o) : SCSettlePrices(i, o, b)
  \/ \E i \in 1..MaxInFlightSC :
       \/ SCSettleLocations(i, "ok", BackendLocationsMap)
       \/ SCSettleTranslations(i, "ok", BackendT("en"))

SpecSC == SCInit /\ [][SCNext]_vars
SpecPanels == PanelsInit /\ [][PanelsNext]_vars
SpecSCLoc == SCInit /\ [][SCLocNext]_vars

\* ================================================================= claims
IsPrefix(p, q) == Len(p) <= Len(q) /\ SubSeq(q, 1, Len(p)) = p

\* the step is a settle of a request of the mounted component c
Settled(c) == op'.name = "settle" /\ op'.res = c /\ op'.live

\* the step mounts or unmounts components
ViewStep == op'.name \in {"setActivePage", "setActiveTab"}

\* ---- C1
\* C1 as stated: a sendMessage with blank input or with a send pending changes
\* nothing, and at most one chat request is outstanding in any reachable state.
C1_Original ==
  [][/\ (op'.name = "sendMessage" /\ (Blank(input) \/ loading["chat"]))
          => UNCHANGED <<messages, input, loading, requests, orphans>>
     /\ Outstanding("chat")' <= 1]_vars

\* C1 as amended: a sendMessage with blank input or with a send pending
\* changes neither the transcript, the input, the pending flag nor the
\* outstanding requests, and at most one chat request issued by the mounted
\* chat panel is outstanding; the request of a panel that was unmounted is not
\* cancelled and may be outstanding beside it.
C1_SendIsNoOpWhenBlankOrPending ==
  [][/\ (op'.name = "sendMessage" /\ (Blank(input) \/ loading["chat"]))
          => UNCHANGED <<messages, input, loading, requests, orphans>>
     /\ LiveOutstanding("chat")' <= 1]_vars

\* a non-blank message was sent while a send was pending, and was ignored
C1_Witness ==
  /\ op.name = "sendMessage"
  /\ loading["chat"] /\ ~Blank(input)
  /\ LiveOutstanding("chat") = 1

\* ---- C2
\* C2: overlapping requests of a panel are not cancelled by a later request,
\* and whenever a request of the mounted panel completes with a body, the
\* panel displays what that body carries, whether or not a later request was
\* issued while it was outstanding: the last completion decides.
C2_LastCompletionWins ==
  [][/\ \A c \in Panels :
          (Settled(c) /\ op'.outcome # "network")
            => data'[c] = Extract(c, op'.body)
     /\ (op'.name # "settle" /\ ~ViewStep)
          => /\ Len(requests') >= Len(requests)
             /\ \A i \in 1..Len(requests) :
                  /\ requests'[i].res = requests[i].res
                  /\ requests'[i].params = requests[i].params]_vars

\* two price requests overlapped, the one issued later completed first, the
\* one issued first completed last and its payload is displayed
C2_Witness ==
  /\ op.name = "settle" /\ op.res = "prices" /\ op.live
  /\ op.outcome = "ok" /\ op.sup
  /\ LiveOutstanding("prices") = 0
  /\ data["prices"] = op.body.prices

C4_LoadingWhileOutstanding ==
  \A c \in Panels : (Mounted(c) /\ Outstanding(c) > 0) => loading[c]

\* ---- C5
Count(fs, res) == Cardinality({i \in 1..Len(fs) : fs[i].res = res})

\* C5: a language change in the state/city variant issues exactly one news
\* request and exactly one translations request, and every request it issues
\* carries the new language.
C5_OneRequestPerChange ==
  [][(variant = "statecity" /\ language' # language)
       => /\ Count(op'.issued, "sc_news") = 1
          /\ Count(op'.issued, "sc_translations") = 1
          /\ \A i \in 1..Len(op'.issued) :
               op'.issued[i].params.language = language']_vars

C7_NoUnhandledRejection == op.name = "settle" => ~op.unhandled

\* ---- C8
\* what the EducationNews panel renders below its header
NewsRender(l, n) ==
  IF l THEN "spinner" ELSE IF Len(n) = 0 THEN "no_news" ELSE "articles"

\* C8: after the news request failed because the backend is unreachable, the
\* panel is not loading and what it renders differs from what it renders for a
\* successful response with no articles.
C8_ErrorStateDistinguishable ==
  (/\ op.name = "settle" /\ op.res = "news" /\ op.live
   /\ op.outcome = "network" /\ LiveOutstanding("news") = 0)
    => /\ ~loading["news"]
       /\ NewsRender(loading["news"], data["news"])
            # NewsRender(FALSE, Extract("news", [articles |-> <<>>]))

\* ---- C9
\* C9: every failed chat request, transport failure or non-success status,
\* appends the assistant turn with the fixed error text.
C9_FailureBecomesErrorTurn ==
  (op.name = "settle" /\ op.res = "chat" /\ op.live /\ op.outcome # "ok")
    => messages[Len(messages)] = Turn("assistant", ChatErrorText)

\* ---- C10
\* C10 as stated: in every step, page switches included, the previous
\* transcript is a prefix of the new one.
C10_Original == [][IsPrefix(messages, messages')]_vars

\* C10 as amended: in every step in which the chat panel stays mounted, the
\* previous transcript is a prefix of the new one; leaving the chat page
\* discards the transcript and coming back starts a new one.
C10_AppendOnlyWhileMounted ==
  [][(Mounted("chat") /\ Mounted("chat")') => IsPrefix(messages, messages')]_vars

\* the transcript of the mounted panel has grown by an exchange
C10_Witness ==
  /\ Mounted("chat")
  /\ op.name = "settle" /\ op.res = "chat" /\ op.live
  /\ Len(messages) >= 3

\* ---- C11
\* the options of the city select: Object.keys(locations[state])
CityOptions == CitiesOf(locations, state)

C12_SelectionIsAnOption ==
  IF variant = "statecity"
    THEN city \in Range(CityOptions)
    ELSE agLocation \in Range(LocationOptions(translations))

\* ---- C13
\* const t = translations || {}
ActiveT == IF translations = NullT THEN EmptyT ELSE translations

\* the labels the education page renders: the nav button with a fallback at
\* the call site, the refresh button with none
NavEducationLabel == OrElse(Lookup(ActiveT, "nav_education"), <<"Education & News">>)
RefreshLabel == Lookup(ActiveT, "refresh")

\* C13: every text lookup rendered on the education page yields the backend's
\* string for the key or a fallback, never undefined, whatever the state of
\* the translation map.
C13_LookupNeverUndefined ==
  (variant = "tabbed" /\ ~appLoading /\ Mounted("news"))
    => /\ NavEducationLabel # Undefined
       /\ RefreshLabel # Undefined

\* ---- C14
\* MarketPrices card: the style of the change badge follows p.trend
TrendStyle(p) ==
  CASE p.trend = "up" -> "green"
    [] p.trend = "down" -> "red"
    [] OTHER -> "neutral"

\* MarketPrices card: t[`per_${p.unit}`] || '/' + p.unit
PerKey(u) == CASE u = "kg" -> "per_kg" [] u = "quintal" -> "per_quintal" [] OTHER -> "per_"
UnitLabel(t, p) == OrElse(Lookup(t, PerKey(p.unit)), <<"/", p.unit>>)

\* state/city price card: getChangeColor, the arrow, and {item.unit}
getChangeColor(change) ==
  IF change > 0 THEN "text-green-600"
  ELSE IF change < 0 THEN "text-red-600" ELSE "text-gray-500"
ChangeArrow(change) == IF change > 0 THEN "up" ELSE IF change < 0 THEN "down" ELSE "flat"
SCUnitLabel(item) == <<item.unit>>

\* C14: every displayed price entry with a negative change is rendered with
\* the downward indicator, and every entry with no translation for its unit
\* is rendered with the unit suffix "/" followed by the unit.
C14_PriceRendering ==
  /\ (variant = "tabbed" /\ Mounted("prices"))
       => \A i \in 1..Len(data["prices"]) :
            LET p == data["prices"][i]
            IN /\ p.change < 0 => TrendStyle(p) = "red"
               /\ PerKey(p.unit) \notin ActiveT.keys
                    => UnitLabel(ActiveT, p) = <<"/", p.unit>>
  /\ (variant = "statecity" /\ "array" \in DOMAIN data["sc_prices"])
       => \A i \in 1..Len(data["sc_prices"].array) :
            LET item == data["sc_prices"].array[i]
            IN /\ item.change < 0
                    => /\ ChangeArrow(item.change) = "down"
                       /\ getChangeColor(item.change) = "text-red-600"
               /\ SCUnitLabel(item) = <<"/", item.unit>>

\* ---- C15
\* the step issues a request for the resource
Issues(res) == \E i \in 1..Len(op'.issued) : op'.issued[i].res = res

\* C15 as stated: no symptom-checker request is issued while the text is blank
\* or a check is pending, and at most one symptom-checker request is
\* outstanding in any reachable state.
C15_Original ==
  [][/\ Issues("symptoms") => (~Blank(symptoms) /\ ~loading["symptoms"])
     /\ Outstanding("symptoms")' <= 1]_vars

\* C15 as amended: no symptom-checker request is issued while the text is
\* blank or a check of the mounted panel is pending, and at most one request
\* issued by the mounted symptom checker is outstanding; the request of a
\* checker that was unmounted is not cancelled and may be outstanding beside it.
C15_NoCheckWhenBlankOrPending ==
  [][/\ Issues("symptoms") => (~Blank(symptoms) /\ ~loading["symptoms"])
     /\ LiveOutstanding("symptoms")' <= 1]_vars

\* a check is pending and the text that was submitted is still in the textarea
C15_Witness ==
  /\ Mounted("symptoms")
  /\ op.name = "checkSymptoms" /\ ~op.blocked
  /\ loading["symptoms"] /\ ~Blank(symptoms)
  /\ LiveOutstanding("symptoms") = 1

\* ---- C16
\* C16 as stated: in every state with an outstanding request, the initial
\* translations request included, the controls are available to the user.
C16_Original == (variant = "tabbed" /\ InFlight > 0) => Interactive

\* C16 as amended: once the initial translations request has settled (the
\* translation map is no longer null), the controls are available in every
\* state with an outstanding request, and no later request closes the gate
\* again; until then the application renders only the loading spinner.
C16_InteractiveAfterFirstLoad ==
  [][/\ (variant = "tabbed" /\ InFlight' > 0 /\ translations' # NullT)
          => Interactive'
     /\ Interactive => Interactive'
     /\ (translations = NullT /\ translations' = NullT) => ~Interactive']_vars

\* the language was changed, its translations request is outstanding, and the
\* controls are available
C16_Witness ==
  /\ op.name = "setLanguage"
  /\ LiveOutstanding("translations") > 0
  /\ Interactive

\* ---- C17
\* C17: whenever the city option list of the selected state is empty, the
\* city select is disabled.
C17_EmptyCityListDisables ==
  (variant = "statecity" /\ Len(CityOptions) = 0) => CityDisabled

\* ---- C18
\* the step settles request i of the outstanding requests
SettlesRequest(i) ==
  /\ op'.name = "settle"
  /\ Len(requests') >= Len(requests) - 1
  /\ SubSeq(requests', 1, Len(requests) - 1) = Without(requests, i)

\* C18: the translation map changes only when the translations request for
\* the selected language completes; until then the previous map stays active.
C18_Original ==
  [][translations' # translations
       => \E i \in 1..Len(requests) :
            /\ requests[i].res = "translations"
            /\ requests[i].params.language = language
            /\ SettlesRequest(i)]_vars

\* The part of C18 that holds: the translation map changes only in a step in
\* which a translations request completes, and a language change leaves the
\* active map as it is while its request is in flight.  The request that
\* completes need not be the one for the selected language.
C18_MapChangesOnlyOnCompletion ==
  [][/\ translations' # translations
          => \E i \in 1..Len(requests) :
               requests[i].res = "translations" /\ SettlesRequest(i)
     /\ op'.name = "setLanguage"
          => (translations' = translations /\ LiveOutstanding("translations")' > 0)]_vars

\* the language was changed, the request for the new language is in flight,
\* and the map of the previous language is still the active one
C18_Witness ==
  /\ op.name = "setLanguage"
  /\ language = "telugu"
  /\ translations = BackendT("english")
  /\ LiveOutstanding("translations") = 1

\* ---- C19
\* the step is the failure of translations request i
TranslationsFailed(i) ==
  /\ requests[i].res = "translations"
  /\ SettlesRequest(i)
  /\ op'.outcome = "network"

\* C19 as stated: after a failed translations request the active map is a
\* map for the requested language that has the navigation keys.
C19_Original ==
  [][\A i \in 1..Len(requests) :
       TranslationsFailed(i)
         => /\ translations'.lang = requests[i].params.language
            /\ "nav_education" \in translations'.keys]_vars

\* C19 as amended: after a failed translations request the active map is the
\* empty map, whatever the requested language, and the navigation label is
\* the fallback written at its call site.
C19_EmptyMapAndCallSiteFallback ==
  [][\A i \in 1..Len(requests) :
       TranslationsFailed(i)
         => /\ translations' = EmptyT
            /\ NavEducationLabel' = <<"Education & News">>]_vars

\* the request for telugu failed after the english map had been active
C19_Witness ==
  /\ op.name = "settle" /\ op.res = "translations" /\ op.outcome = "network"
  /\ language = "telugu"
  /\ translations = EmptyT
  /\ NavEducationLabel = <<"Education & News">>

\* ---- C20
\* C20: an accepted send sets the pending flag; the flag stays set while the
\* panel is mounted until its request settles; when the request settles, with
\* any outcome, exactly one assistant turn is appended and the flag is
\* cleared, so that the send guard depends on the input alone again.
C20_SendReturnsToIdle ==
  [][/\ (op'.name = "sendMessage" /\ ~op'.blocked)
          => (~loading["chat"] /\ loading'["chat"])
     /\ (loading["chat"] /\ Mounted("chat") /\ Mounted("chat")' /\ ~Settled("chat"))
          => loading'["chat"]
     /\ Settled("chat")
          => /\ loading["chat"] /\ ~loading'["chat"]
             /\ Len(messages') = Len(messages) + 1
             /\ IsPrefix(messages, messages')
             /\ messages'[Len(messages')].role = "assistant"
             /\ SendGuard' = ~Blank(input')]_vars

\* a second send was accepted after the first had settled
C20_Witness ==
  /\ op.name = "sendMessage" /\ ~op.blocked
  /\ loading["chat"]
  /\ Len(messages) = 4
  /\ messages[3].role = "assistant" /\ messages[4].role = "user"

\* ---- C21
\* C21: whenever the education page is shown the refresh action can be taken,
\* whether the panel is loading, has data or has failed, and each refresh
\* issues one news request that carries the selected language and category.
C21_RefreshUnconditional ==
  [][/\ (Interactive /\ Mounted("news") /\ InFlight < MaxInFlight)
          => ENABLED RefreshNews
     /\ op'.name = "refresh"
          => /\ ~op'.blocked
             /\ Len(requests') = Len(requests) + 1
             /\ requests'[Len(requests')].res = "news"
             /\ requests'[Len(requests')].params =
                  [NoParams EXCEPT !.language = language, !.category = newsCategory]
             /\ \A i \in 1..Len(requests) :
                  /\ requests'[i].res = requests[i].res
                  /\ requests'[i].params = requests[i].params
             /\ loading'["news"]]_vars

\* a refresh was taken while articles were displayed and an earlier news
\* request was still outstanding
C21_Witness ==
  /\ op.name = "refresh"
  /\ requests[Len(requests)].over
  /\ data["news"] # <<>>
  /\ LiveOutstanding("news") = 2

\* ---- C22
\* C22: when no translations request is outstanding and every one of them was
\* answered successfully, the active translation map is the one served for
\* the selected language.
C22_MapMatchesLanguage ==
  (variant = "tabbed" /\ translations # NullT /\ LiveOutstanding("translations") = 0)
    => translations = BackendT(language)

\* ---- C23
\* the welcome turns ChatBot can start with: t.chatbot_welcome of the map that
\* is active at the mount, or the built-in greeting
WelcomeTurns ==
  {Welcome(t) : t \in {NullT, EmptyT} \cup {BackendT(l) : l \in TabbedLanguages}}

Roles(m, r) == Cardinality({i \in 1..Len(m) : m[i].role = r})

\* the shape of a transcript m whose pending flag is p
TranscriptShape(m, p) ==
  /\ Len(m) >= 1
  /\ m[1] \in WelcomeTurns
  /\ \A i \in 2..Len(m) :
       m[i].role = IF i % 2 = 0 THEN "user" ELSE "assistant"
  /\ Roles(m, "assistant") = Roles(m, "user") + (IF p THEN 0 ELSE 1)

\* C23: while the chat panel is mounted its transcript starts with one
\* assistant welcome turn, user and assistant turns alternate after it, there
\* is one assistant turn more than user turns when no send is pending and as
\* many when one is pending, and the turn a settling request appends directly
\* follows the user turn that carries the message of that request.
C23_TranscriptShape ==
  [][/\ Mounted("chat")' => TranscriptShape(messages', loading'["chat"])
     /\ (Mounted("chat") /\ Mounted("chat")')
          => /\ IsPrefix(messages, messages')
             /\ messages'[1] = messages[1]
     /\ Settled("chat")
          => /\ \E i \in 1..Len(requests) :
                  /\ requests[i].res = "chat"
                  /\ requests' = Without(requests, i)
                  /\ messages[Len(messages)] =
                       Turn("user", requests[i].params.message)
             /\ Len(messages') = Len(messages) + 1
             /\ messages'[Len(messages')].role = "assistant"]_vars

\* the second reply arrived after the first send had failed
C23_Witness ==
  /\ op.name = "settle" /\ op.res = "chat" /\ op.live
  /\ Mounted("chat") /\ ~loading["chat"]
  /\ Len(messages) = 5
  /\ messages[3].content = ChatErrorText
  /\ messages[5].content # ChatErrorText

\* ---- C24
\* no request of the mounted component c is outstanding and c is not loading
Idle(c) == (Mounted(c) /\ LiveOutstanding(c) = 0) => ~loading[c]

\* C24: for every panel, a request of the mounted panel that settles, with any
\* outcome, clears the panel's loading flag, and whenever no request of a
\* mounted panel is outstanding its loading flag is false.
C24_SettledClearsLoading ==
  [][\A c \in Components \cup SCPanels :
       /\ Idle(c) /\ Idle(c)'
       /\ Settled(c) => ~loading'[c]]_vars

\* the last of two overlapping price requests failed and cleared the flag
C24_Witness ==
  /\ op.name = "settle" /\ op.res = "prices" /\ op.live
  /\ op.outcome = "network" /\ op.over
  /\ Mounted("prices") /\ LiveOutstanding("prices") = 0
  /\ ~loading["prices"]

====
